---- MODULE Spec2Model ----
(***************************************************************************)
(* Batch generator of strength-calculation documents (pavlenkotm/RP).      *)
(*                                                                         *)
(* The run of StrengthCalculationGenerator.run (src/main.py) is a          *)
(* sequential state machine: component initialisation, catalog loading,    *)
(* category filtering, then one process_product per product, whose four    *)
(* gates (image check, passport lookup, technical-data extraction,         *)
(* document generation) are the steps of the model, and the summary.       *)
(* What the file system, the PDF library, the DOCX library and Word        *)
(* automation answer is the environment: the catalog, the passports        *)
(* directory and the allow-list are fixed in Init, and whether a call      *)
(* raises is chosen when the call is made.                                 *)
(*                                                                         *)
(* The functions of the components are specified on their own, each        *)
(* applied to inputs drawn in the initial state: CatalogSpec (ExcelReader: *)
(* get_products row by row, _column_letter_to_index, _determine_category), *)
(* DocSpec (the loads of DOCXGenerator._prepare_replacements) and          *)
(* PassportSpec (PDFParser: find_passport, extract_technical_data).        *)
(***************************************************************************)
EXTENDS Integers, Sequences, FiniteSets, TLC

VARIABLES
    catalog,             \* records ExcelReader.get_products returns for the spreadsheet
    passport_listing,    \* base names of the passports directory, in the order glob enumerates them
    allowed_categories,  \* ConfigManager.get_categories()
    pc,                  \* position of run() / process_product()
    products,            \* the local `products` of run()
    idx,                 \* 1-based index of the product the loop of run() is at
    stats,               \* RPLogger.stats
    outcomes,            \* the OK / error line logged per product: [row, outcome], in log order
    output_files,        \* output paths this run has created in the output directory
    process_calls,       \* number of calls of process_product so far
    summary,             \* what log_summary returned, "none" before it ran
    calls,               \* gates evaluated for the current product, with their result
    raised,              \* steps of generate_document that raised for the current product
    warnings,            \* log_warning calls made for the current product
    technical_data,      \* the local `technical_data` of process_product
    passport_path,       \* the local `passport_path` of process_product
    arg,                 \* the call a component-level specification is checking: function and arguments
    ret                  \* <<>> until that call has returned, then <<value returned>>

env == <<catalog, passport_listing, allowed_categories, arg, ret>>
perProduct == <<calls, raised, warnings, technical_data, passport_path>>
vars == <<catalog, passport_listing, allowed_categories, pc, products, idx, stats,
          outcomes, output_files, process_calls, summary, calls, raised, warnings,
          technical_data, passport_path, arg, ret>>

-----------------------------------------------------------------------------
(* Bounds and the finite environment                                       *)

MaxProducts == 2

\* Python's None where a path is expected: no file name is empty.
None == <<>>

\* Strings are sequences of characters; a character is a small number.
Articles == {<<1>>, <<3>>}
PassportNames == {<<1, 2>>}

\* image_path as get_products returns it: empty, a path that does not exist,
\* a path that exists.
ImagePaths == {"", "missing.png", "ok.png"}
ExistingPaths == {"ok.png"}

\* A product name is known here by the category keywords its lower-cased
\* text contains. The Cyrillic literals of the source are written in Latin
\* transliteration throughout ("domik", "pesochnic", "zon", ...).
PipelineNames == {{"domik"}, {"pesochnic"}}

\* A technical-parameter name is known by its label and by which of the
\* tokens tested by the post-processing its lower-cased text contains.
ParamKeys == {[label |-> "Dlina", tokens |-> {}],
              [label |-> "Razmer zony prizemleniya", tokens |-> {"zon", "prizemlen"}]}

ErrorCodes == {"ERR_INIT", "ERR_EXCEL_READ", "ERR_NO_IMAGE", "ERR_NO_PASSPORT",
               "ERR_PDF_PARSE", "ERR_TEMPLATE", "ERR_UNKNOWN"}
ProductErrorCodes == {"ERR_NO_IMAGE", "ERR_NO_PASSPORT", "ERR_PDF_PARSE",
                      "ERR_TEMPLATE", "ERR_UNKNOWN"}

-----------------------------------------------------------------------------
(* RPLogger                                                                *)

EmptyStats == [total |-> 0, success |-> 0, errors |-> <<>>]

LogSuccess(st) == [st EXCEPT !.total = @ + 1, !.success = @ + 1]

LogErrorNoTotal(st, error_code) ==
    LET errs == IF error_code \in DOMAIN st.errors
                THEN st.errors
                ELSE [c \in DOMAIN st.errors \cup {error_code} |->
                        IF c = error_code THEN 0 ELSE st.errors[c]]
    IN [st EXCEPT !.errors = [errs EXCEPT ![error_code] = @ + 1]]

LogError(st, error_code) ==
    LET errs == IF error_code \in DOMAIN st.errors
                THEN st.errors
                ELSE [c \in DOMAIN st.errors \cup {error_code} |->
                        IF c = error_code THEN 0 ELSE st.errors[c]]
    IN [st EXCEPT !.total = @ + 1,
                  !.errors = [errs EXCEPT ![error_code] = @ + 1]]

RECURSIVE SumOver(_, _)
SumOver(f, S) ==
    IF S = {} THEN 0
    ELSE LET c == CHOOSE x \in S : TRUE IN f[c] + SumOver(f, S \ {c})

ErrorTotal(st) == SumOver(st.errors, DOMAIN st.errors)

ErrorCount(st, error_code) ==
    IF error_code \in DOMAIN st.errors THEN st.errors[error_code] ELSE 0

-----------------------------------------------------------------------------
(* ExcelReader                                                             *)

DetermineCategoryGazeboFirst(name) ==
    IF "domik" \in name THEN "Domiki"
    ELSE IF "kompleks" \in name THEN "Igrovye kompleksy"
    ELSE IF "pesochnic" \in name THEN "Pesochnicy"
    ELSE IF "besedk" \in name THEN "Besedki"
    ELSE IF "mini-besedk" \in name \/ "minibesedk" \in name THEN "Mini-besedki"
    ELSE "Igrovye elementy"

DetermineCategoryOtherByDefault(name) ==
    IF "domik" \in name THEN "Domiki"
    ELSE IF "kompleks" \in name THEN "Igrovye kompleksy"
    ELSE IF "pesochnic" \in name THEN "Pesochnicy"
    ELSE IF "mini-besedk" \in name \/ "minibesedk" \in name THEN "Mini-besedki"
    ELSE IF "besedk" \in name THEN "Besedki"
    ELSE "Prochee"

DetermineCategory(name) ==
    IF "domik" \in name THEN "Domiki"
    ELSE IF "kompleks" \in name THEN "Igrovye kompleksy"
    ELSE IF "pesochnic" \in name THEN "Pesochnicy"
    ELSE IF "mini-besedk" \in name \/ "minibesedk" \in name THEN "Mini-besedki"
    ELSE IF "besedk" \in name THEN "Besedki"
    ELSE "Igrovye elementy"

ProductRecords ==
    {[article |-> a, name |-> n, image_path |-> i, category |-> DetermineCategory(n)] :
        a \in Articles, n \in PipelineNames, i \in ImagePaths}

Catalogs == UNION {[1..n -> ProductRecords] : n \in 0..MaxProducts}

Listings ==
    {s \in UNION {[1..n -> PassportNames] : n \in 0..Cardinality(PassportNames)} :
        \A i, j \in DOMAIN s : i # j => s[i] # s[j]}

AllowedSets == {{}, {"Domiki"}}

-----------------------------------------------------------------------------
(* PDFParser                                                               *)

\* fnmatch of a base name against the default pattern "*{ART}*.pdf": the
\* article occurs in the name.
Contains(name, article) ==
    \E i \in 0..(Len(name) - Len(article)) :
        SubSeq(name, i + 1, i + Len(article)) = article

GlobMatches(article, listing) == SelectSeq(listing, LAMBDA f : Contains(f, article))

FindPassportAnyFile(article, listing) ==
    IF listing # <<>> THEN Head(listing) ELSE None

FindPassport(article, listing) ==
    LET files == GlobMatches(article, listing)
    IN IF files # <<>> THEN Head(files) ELSE None

RemoveLandingZoneEitherToken(raw) ==
    {k \in raw : {"zon", "prizemlen"} \cap k.tokens = {}}

\* Lines 95-103 of extract_technical_data: the landing-zone parameter is dropped.
RemoveLandingZone(raw) ==
    {k \in raw : ~({"zon", "prizemlen"} \subseteq k.tokens)}

-----------------------------------------------------------------------------
(* DOCXGenerator                                                           *)

\* The calls of generate_document and _process_document, in program order.
GenSteps == <<"copy", "open", "prepare_replacements", "replace_paragraphs",
              "update_tables", "enhance_engineering_text", "format_table_of_contents",
              "format_formulas", "update_stamp_metadata", "remove_figure_captions",
              "remove_extra_images", "insert_main_image", "save", "update_fields_com">>

GenStepSet == {GenSteps[i] : i \in DOMAIN GenSteps}

\* The steps the spec calls secondary refinement steps.
RefinementSteps == {"enhance_engineering_text", "format_table_of_contents",
                    "format_formulas", "update_stamp_metadata",
                    "remove_figure_captions", "remove_extra_images",
                    "insert_main_image"}

CaughtOnlyImage(step) == step = "insert_main_image"

\* The steps whose exception generate_document catches and logs as a warning:
\* the body of _insert_main_image and the call of _update_fields_com.
Caught(step) == step \in {"insert_main_image", "update_fields_com"}

\* Runs the steps from position i on; `inject` are the steps that raise when
\* they are executed. acc.failed is "none" while no exception has escaped.
RECURSIVE RunSteps(_, _, _)
RunSteps(i, inject, acc) ==
    IF i > Len(GenSteps) \/ acc.failed # "none" THEN acc
    ELSE LET step == GenSteps[i]
             ran  == [acc EXCEPT !.copied = @ \/ (step = "copy" /\ step \notin inject)]
         IN IF step \notin inject THEN RunSteps(i + 1, inject, ran)
            ELSE IF Caught(step)
                 THEN RunSteps(i + 1, inject,
                               [acc EXCEPT !.raised = @ \cup {step},
                                           !.warnings = Append(@, step)])
                 ELSE [acc EXCEPT !.raised = @ \cup {step}, !.failed = step]

GenerateDocument(inject) ==
    RunSteps(1, inject, [raised |-> {}, warnings |-> <<>>, failed |-> "none", copied |-> FALSE])

\* The output path of a product: the article and the name decide it.
OutputPath(product) == [article |-> product.article, name |-> product.name]

\* The faults injected into one generation: at most two steps raise, and at
\* most one of them before image insertion (no exception is caught before
\* it, so a second early fault would never be executed).
EarlySteps == {GenSteps[i] : i \in 1..11}

FaultSets ==
    {S \in SUBSET GenStepSet : Cardinality(S) <= 2 /\ Cardinality(S \cap EarlySteps) <= 1}

-----------------------------------------------------------------------------
(* StrengthCalculationGenerator                                            *)

Init ==
    /\ catalog \in Catalogs
    /\ passport_listing \in Listings
    /\ allowed_categories \in AllowedSets
    /\ pc = "start"
    /\ products = <<>>
    /\ idx = 1
    /\ stats = EmptyStats
    /\ outcomes = <<>>
    /\ output_files = {}
    /\ process_calls = 0
    /\ summary = "none"
    /\ calls = <<>>
    /\ raised = {}
    /\ warnings = <<>>
    /\ technical_data = {}
    /\ passport_path = None
    /\ arg = [fn |-> "run"]
    /\ ret = <<>>

product == products[idx]

Evaluated(gate, result) == Append(calls, [gate |-> gate, result |-> result])

\* initialize_components returned False although run() goes on: the check of
\* its result is missing.
InitializeComponentsUnchecked ==
    /\ pc = "start"
    /\ \E ok \in BOOLEAN :
         /\ stats' = IF ok THEN stats ELSE LogError(stats, "ERR_INIT")
         /\ pc' = "load"
    /\ UNCHANGED <<env, products, idx, outcomes, output_files, process_calls, summary,
                   perProduct>>

\* run(), lines 135-140, with initialize_components: log_start, then either
\* every component is constructed or ERR_INIT is logged and run() returns.
InitializeComponents ==
    /\ pc = "start"
    /\ \E ok \in BOOLEAN :
         IF ok
         THEN /\ pc' = "load"
              /\ stats' = stats
         ELSE /\ stats' = LogError(stats, "ERR_INIT")
              /\ pc' = "aborted"
    /\ UNCHANGED <<env, products, idx, outcomes, output_files, process_calls, summary,
                   perProduct>>

LoadOutcomes == {"ok", "file_missing", "read_error", "get_products_error"}

\* run(), lines 142-150: load_data and get_products, or ERR_EXCEL_READ and return.
LoadCatalog ==
    /\ pc = "load"
    /\ \E r \in LoadOutcomes :
         IF r = "ok"
         THEN /\ products' = catalog
              /\ pc' = "filter"
              /\ stats' = stats
         ELSE /\ stats' = LogError(stats, "ERR_EXCEL_READ")
              /\ pc' = "aborted"
              /\ products' = products
    /\ UNCHANGED <<env, idx, outcomes, output_files, process_calls, summary, perProduct>>

FilterCategoriesSkipped ==
    /\ pc = "filter"
    /\ products' = products
    /\ pc' = "loop"
    /\ UNCHANGED <<env, idx, stats, outcomes, output_files, process_calls, summary,
                   perProduct>>

\* run(), lines 152-156.
FilterCategories ==
    /\ pc = "filter"
    /\ products' = IF allowed_categories # {}
                   THEN SelectSeq(products, LAMBDA p : p.category \in allowed_categories)
                   ELSE products
    /\ pc' = "loop"
    /\ UNCHANGED <<env, idx, stats, outcomes, output_files, process_calls, summary,
                   perProduct>>

\* run(), lines 163-165: the loop calls process_product for the next product.
BeginProduct ==
    /\ pc = "loop"
    /\ idx <= Len(products)
    /\ pc' = "image"
    /\ process_calls' = process_calls + 1
    /\ calls' = <<>>
    /\ raised' = {}
    /\ warnings' = <<>>
    /\ technical_data' = {}
    /\ passport_path' = None
    /\ UNCHANGED <<env, products, idx, stats, outcomes, output_files, summary>>

\* log_success or log_error, then process_product returns and the loop advances.
Finish(outcome) ==
    /\ stats' = IF outcome = "OK" THEN LogSuccess(stats) ELSE LogError(stats, outcome)
    /\ outcomes' = Append(outcomes, [row |-> idx, outcome |-> outcome])
    /\ idx' = idx + 1
    /\ pc' = "loop"

ExceptionCodeOuterOnly(gate) == "ERR_UNKNOWN"

\* The except clause that catches an exception raised at a gate: the inner
\* try of gate 3, the inner try of gate 4, the outer try for the rest.
ExceptionCode(gate) ==
    CASE gate = "extract" -> "ERR_PDF_PARSE"
      [] gate = "generate" -> "ERR_TEMPLATE"
      [] OTHER -> "ERR_UNKNOWN"

\* No except clause: the exception leaves process_product and ends run().
RaiseEscapes(gate) ==
    /\ pc' = "crashed"
    /\ UNCHANGED <<stats, outcomes, idx>>

RaiseFrom(gate) == Finish(ExceptionCode(gate))

NextGate(gate) ==
    CASE gate = "image" -> "passport"
      [] gate = "passport" -> "extract"
      [] gate = "extract" -> "generate"
      [] OTHER -> "loop"

\* log_error without the return that follows it.
FailGateNoReturn(error_code) ==
    /\ stats' = LogError(stats, error_code)
    /\ outcomes' = Append(outcomes, [row |-> idx, outcome |-> error_code])
    /\ idx' = idx
    /\ pc' = NextGate(pc)

\* A gate that fails without raising: log_error and return False.
FailGate(error_code) == Finish(error_code)

ImageMissingEmptyOnly(image_path) == image_path = ""

\* main.py line 82: not image_path or not os.path.exists(image_path)
ImageMissing(image_path) == image_path = "" \/ image_path \notin ExistingPaths

\* Gate 1, lines 81-88. image_path is a str (excel_reader.py line 83), on
\* which neither `not image_path` nor os.path.exists raises.
CheckImage ==
    /\ pc = "image"
    /\ IF ImageMissing(product.image_path)
       THEN /\ calls' = Evaluated("image", "fail")
            /\ FailGate("ERR_NO_IMAGE")
       ELSE /\ calls' = Evaluated("image", "pass")
            /\ pc' = "passport"
            /\ UNCHANGED <<stats, outcomes, idx>>
    /\ UNCHANGED <<env, products, output_files, process_calls, summary, raised, warnings,
                   technical_data, passport_path>>

\* Gate 2, lines 90-97. find_passport raises before it globs when the
\* configured pattern or directory is not a string (pdf_parser.py lines
\* 25-26); otherwise it returns the first match or None.
LookupPassport ==
    /\ pc = "passport"
    /\ \E exc \in BOOLEAN :
         IF exc
         THEN /\ calls' = Evaluated("passport", "raise")
              /\ passport_path' = passport_path
              /\ RaiseFrom("passport")
         ELSE LET found == FindPassport(product.article, passport_listing)
              IN /\ passport_path' = found
                 /\ IF found = None
                    THEN /\ calls' = Evaluated("passport", "fail")
                         /\ FailGate("ERR_NO_PASSPORT")
                    ELSE /\ calls' = Evaluated("passport", "pass")
                         /\ pc' = "extract"
                         /\ UNCHANGED <<stats, outcomes, idx>>
    /\ UNCHANGED <<env, products, output_files, process_calls, summary, raised, warnings,
                   technical_data>>

\* An empty extraction result taken for a failure of gate 3.
AfterExtractionEmptyFails(data) ==
    /\ technical_data' = data
    /\ warnings' = warnings
    /\ IF data = {}
       THEN /\ calls' = Evaluated("extract", "fail")
            /\ Finish("ERR_PDF_PARSE")
       ELSE /\ calls' = Evaluated("extract", "pass")
            /\ pc' = "generate"
            /\ UNCHANGED <<stats, outcomes, idx>>

\* Lines 101-106: extract_technical_data returned `data`; an empty result is
\* logged as a warning and replaced by {}.
AfterExtraction(data) ==
    /\ technical_data' = data
    /\ warnings' = IF data = {} THEN Append(warnings, "no_technical_data") ELSE warnings
    /\ calls' = Evaluated("extract", "pass")
    /\ pc' = "generate"
    /\ UNCHANGED <<stats, outcomes, idx>>

\* Gate 3, lines 99-112. extract_technical_data raises, or returns what its
\* strategies found less the landing-zone parameter.
ExtractTechnicalData ==
    /\ pc = "extract"
    /\ \E exc \in BOOLEAN, raw \in SUBSET ParamKeys :
         IF exc
         THEN /\ calls' = Evaluated("extract", "raise")
              /\ UNCHANGED <<technical_data, warnings>>
              /\ RaiseFrom("extract")
         ELSE AfterExtraction(RemoveLandingZone(raw))
    /\ UNCHANGED <<env, products, output_files, process_calls, summary, raised,
                   passport_path>>

\* Gate 4, lines 114-124, with generate_document.
GenerateGate ==
    /\ pc = "generate"
    /\ \E inject \in FaultSets :
         LET g == GenerateDocument(inject)
         IN /\ raised' = g.raised
            /\ warnings' = warnings \o g.warnings
            /\ output_files' = IF g.copied
                               THEN output_files \cup {OutputPath(product)}
                               ELSE output_files
            /\ IF g.failed = "none"
               THEN /\ calls' = Evaluated("generate", "pass")
                    /\ Finish("OK")
               ELSE /\ calls' = Evaluated("generate", "raise")
                    /\ RaiseFrom("generate")
    /\ UNCHANGED <<env, products, process_calls, summary, technical_data, passport_path>>

\* The loop stops one product short.
EndLoopBeforeLast ==
    /\ pc = "loop"
    /\ idx >= Len(products)
    /\ pc' = "summary"
    /\ UNCHANGED <<env, products, idx, stats, outcomes, output_files, process_calls,
                   summary, perProduct>>

\* The loop of run() is exhausted.
EndLoop ==
    /\ pc = "loop"
    /\ idx > Len(products)
    /\ pc' = "summary"
    /\ UNCHANGED <<env, products, idx, stats, outcomes, output_files, process_calls,
                   summary, perProduct>>

\* run(), line 168.
LogSummary ==
    /\ pc = "summary"
    /\ summary' = stats
    /\ pc' = "done"
    /\ UNCHANGED <<env, products, idx, stats, outcomes, output_files, process_calls,
                   perProduct>>

Next ==
    \/ InitializeComponents
    \/ LoadCatalog
    \/ FilterCategories
    \/ BeginProduct
    \/ CheckImage
    \/ LookupPassport
    \/ ExtractTechnicalData
    \/ GenerateGate
    \/ EndLoop
    \/ LogSummary

Spec == Init /\ [][Next]_vars

\* run() is one sequential thread: while a step is enabled, it is taken.
FairSpec == Spec /\ WF_vars(Next)

-----------------------------------------------------------------------------
(* ExcelReader, cell by cell                                               *)

MaxRows == 2
MaxLetters == 2

\* A text is a sequence of characters, a character a string of length one
\* ("lat_b" and "lat_e" are the Latin letters of the source's second
\* mini-gazebo literal, whose other letters are Cyrillic).
Whitespace == {" "}

Alphabet == <<"A", "B", "C", "D", "E", "F", "G", "H", "I", "J", "K", "L", "M",
              "N", "O", "P", "Q", "R", "S", "T", "U", "V", "W", "X", "Y", "Z">>

LowerAlphabet == <<"a", "b", "c", "d", "e", "f", "g", "h", "i", "j", "k", "l", "m",
                   "n", "o", "p", "q", "r", "s", "t", "u", "v", "w", "x", "y", "z">>

Digits == <<"0", "1", "2", "3", "4", "5", "6", "7", "8", "9">>

PositionIn(c, alphabet) == CHOOSE i \in DOMAIN alphabet : alphabet[i] = c

IsIn(c, alphabet) == \E i \in DOMAIN alphabet : alphabet[i] = c

\* str.upper and str.lower, character by character.
UpperChar(c) ==
    IF IsIn(c, LowerAlphabet) THEN Alphabet[PositionIn(c, LowerAlphabet)]
    ELSE IF c = "lat_b" THEN "LAT_B"
    ELSE IF c = "lat_e" THEN "LAT_E"
    ELSE c

LowerChar(c) ==
    IF IsIn(c, Alphabet) THEN LowerAlphabet[PositionIn(c, Alphabet)]
    ELSE IF c = "LAT_B" THEN "lat_b"
    ELSE IF c = "LAT_E" THEN "lat_e"
    ELSE c

Upper(s) == [i \in DOMAIN s |-> UpperChar(s[i])]

Lower(s) == [i \in DOMAIN s |-> LowerChar(s[i])]

RECURSIVE LStrip(_)
LStrip(s) == IF s # <<>> /\ Head(s) \in Whitespace THEN LStrip(Tail(s)) ELSE s

RECURSIVE RStrip(_)
RStrip(s) ==
    IF s # <<>> /\ s[Len(s)] \in Whitespace THEN RStrip(SubSeq(s, 1, Len(s) - 1)) ELSE s

\* str.strip()
Strip(s) == RStrip(LStrip(s))

\* ord(char) for a capital Latin letter.
Ord(char) == 64 + PositionIn(char, Alphabet)

\* Positional value with digits 0..25: "A" and "AA" share an index.
RECURSIVE ColumnIndexZeroDigit(_, _)
ColumnIndexZeroDigit(letter, index) ==
    IF letter = <<>> THEN index
    ELSE ColumnIndexZeroDigit(Tail(letter), index * 26 + (Ord(Head(letter)) - Ord("A")))

ColumnLetterToIndexZeroDigit(letter) == ColumnIndexZeroDigit(Upper(Strip(letter)), 0)

\* The loop of _column_letter_to_index, lines 109-111.
RECURSIVE ColumnIndex(_, _)
ColumnIndex(letter, index) ==
    IF letter = <<>> THEN index
    ELSE ColumnIndex(Tail(letter), index * 26 + (Ord(Head(letter)) - Ord("A") + 1))

ColumnLetterToIndex(letter) == ColumnIndex(Strip(Upper(letter)), 0) - 1

\* What a cell of the DataFrame holds: NaN for an empty cell, a non-empty
\* text, an integer, a finite float (n is its value in tenths), an infinity.
\* "none" is Python's None, which _safe_get_value answers for NaN.
Cell(kind, s, n) == [kind |-> kind, s |-> s, n |-> n]

PyNone == Cell("none", <<>>, 0)
NaN == Cell("nan", <<>>, 0)
Text(s) == Cell("str", s, 0)
IntCell(n) == Cell("int", <<>>, n)
FloatCell(n) == Cell("float", <<>>, n)
Inf == Cell("inf", <<>>, 0)

SafeGetValue(row, col_index) ==
    IF col_index + 1 \in DOMAIN row /\ row[col_index + 1].kind # "nan"
    THEN row[col_index + 1]
    ELSE PyNone

\* bool(value), as `not value` and `if value` evaluate it.
Truthy(value) ==
    CASE value.kind = "none" -> FALSE
      [] value.kind = "str" -> value.s # <<>>
      [] value.kind \in {"int", "float"} -> value.n # 0
      [] OTHER -> TRUE

RECURSIVE NatStr(_)
NatStr(k) == IF k < 10 THEN <<Digits[k + 1]>> ELSE NatStr(k \div 10) \o <<Digits[(k % 10) + 1]>>

Abs(k) == IF k < 0 THEN -k ELSE k

Sign(k) == IF k < 0 THEN <<"-">> ELSE <<>>

\* str(value)
Str(value) ==
    CASE value.kind = "str" -> value.s
      [] value.kind = "int" -> Sign(value.n) \o NatStr(Abs(value.n))
      [] value.kind = "float" ->
            Sign(value.n) \o NatStr(Abs(value.n) \div 10) \o <<".">> \o NatStr(Abs(value.n) % 10)
      [] value.kind = "inf" -> <<"i", "n", "f">>
      [] value.kind = "nan" -> <<"n", "a", "n">>
      [] OTHER -> <<"N", "o", "n", "e">>

IsDigits(s) == s # <<>> /\ \A i \in DOMAIN s : IsIn(s[i], Digits)

RECURSIVE NatVal(_)
NatVal(s) ==
    IF s = <<>> THEN 0
    ELSE NatVal(SubSeq(s, 1, Len(s) - 1)) * 10 + (PositionIn(s[Len(s)], Digits) - 1)

\* float(text): surrounding whitespace is ignored; a decimal integer with an
\* optional sign and the spelling "inf" are the numerals of the model.
ParseFloat(s) ==
    LET t == Lower(Strip(s))
        unsigned == IF t # <<>> /\ Head(t) \in {"-", "+"} THEN Tail(t) ELSE t
        negative == t # <<>> /\ Head(t) = "-"
    IN IF unsigned = <<"i", "n", "f">> THEN [exc |-> "none", value |-> Inf]
       ELSE IF IsDigits(unsigned)
            THEN [exc |-> "none",
                  value |-> FloatCell((IF negative THEN -10 ELSE 10) * NatVal(unsigned))]
            ELSE [exc |-> "ValueError", value |-> PyNone]

\* float(value)
Float(value) ==
    CASE value.kind = "str" -> ParseFloat(value.s)
      [] value.kind = "int" -> [exc |-> "none", value |-> FloatCell(10 * value.n)]
      [] value.kind \in {"float", "inf", "nan"} -> [exc |-> "none", value |-> value]
      [] OTHER -> [exc |-> "TypeError", value |-> PyNone]

\* int(x) of a float: truncation towards zero, OverflowError for an infinity.
IntOfFloat(x) ==
    CASE x.kind = "inf" -> [exc |-> "OverflowError", value |-> 0]
      [] x.kind = "nan" -> [exc |-> "ValueError", value |-> 0]
      [] OTHER -> [exc |-> "none",
                   value |-> IF x.n < 0 THEN -(Abs(x.n) \div 10) ELSE x.n \div 10]

\* The literals _determine_category looks for, by the name the keyword has
\* in DetermineCategory.
KeywordChars ==
    [k \in {"domik", "kompleks", "pesochnic", "mini-besedk", "minibesedk", "besedk"} |->
        CASE k = "domik" -> <<"d", "o", "m", "i", "k">>
          [] k = "kompleks" -> <<"k", "o", "m", "p", "l", "e", "k", "s">>
          [] k = "pesochnic" -> <<"p", "e", "s", "o", "c", "h", "n", "i", "c">>
          [] k = "mini-besedk" -> <<"m", "i", "n", "i", "-", "b", "e", "s", "e", "d", "k">>
          [] k = "minibesedk" -> <<"m", "i", "n", "i", "lat_b", "lat_e", "s", "e", "d", "k">>
          [] OTHER -> <<"b", "e", "s", "e", "d", "k">>]

\* The keywords for which `keyword in name_lower` is true.
KeywordsIn(name_lower) ==
    {k \in DOMAIN KeywordChars : Contains(name_lower, KeywordChars[k])}

\* _determine_category(name) as get_products calls it, on the value of the
\* cell: name.lower() raises AttributeError for a number.
DetermineCategoryOfCell(name) ==
    IF name.kind # "str"
    THEN [exc |-> "AttributeError", value |-> ""]
    ELSE [exc |-> "none", value |-> DetermineCategory(KeywordsIn(Lower(name.s)))]

\* Lines 74-78 of get_products.
ChildrenCount(children_count) ==
    IF ~Truthy(children_count) THEN [exc |-> "none", value |-> 1]
    ELSE LET f == Float(children_count)
         IN IF f.exc # "none" THEN [exc |-> "none", value |-> 1]
            ELSE IntOfFloat(f.value)

\* excel_columns of the configuration.
column_mapping == [article |-> <<"A">>, name |-> <<"B">>, image_path |-> <<"C">>,
                   children_count |-> <<"D">>]

\* The body of the loop of get_products for one row, lines 60-93: the
\* products the row appends, none when it is skipped or an exception reaches
\* the outer except.
RowProducts(row, row_index) ==
    LET article == SafeGetValue(row, ColumnLetterToIndex(column_mapping.article))
        name == SafeGetValue(row, ColumnLetterToIndex(column_mapping.name))
        image_path == SafeGetValue(row, ColumnLetterToIndex(column_mapping.image_path))
        children_count == SafeGetValue(row, ColumnLetterToIndex(column_mapping.children_count))
        category == DetermineCategoryOfCell(name)
        children == ChildrenCount(children_count)
    IN IF ~Truthy(article) \/ ~Truthy(name) THEN <<>>
       ELSE IF category.exc # "none" THEN <<>>
       ELSE IF children.exc # "none" THEN <<>>
       ELSE << [article |-> Strip(Str(article)),
                name |-> Strip(Str(name)),
                image_path |-> IF Truthy(image_path) THEN Strip(Str(image_path)) ELSE <<>>,
                children_count |-> children.value,
                category |-> category.value,
                row_index |-> row_index] >>

\* The cells of the sampled spreadsheets, column by column.
ArticleCells == {NaN, Text(<<" ", " ">>), Text(<<" ", "G", "1">>), IntCell(0), IntCell(7)}

NameCells == {NaN, Text(<<" ">>), Text(KeywordChars["domik"]),
              Text(Upper(KeywordChars["besedk"]) \o <<" ">>), IntCell(7)}

ImageCells == {NaN, Text(<<"p">>)}

ChildrenCells == {NaN, Text(<<"x">>), Text(<<" ", "3">>), Text(<<"i", "n", "f">>),
                  IntCell(0), IntCell(4), FloatCell(-15), FloatCell(27)}

\* Rows that vary the article and the name, rows that vary the image and the
\* number of children, and rows of a sheet that has no fourth column.
Rows ==
    {<<a, n, Text(<<"p">>), IntCell(4)>> : a \in ArticleCells, n \in NameCells}
    \cup {<<Text(<<" ", "G", "1">>), Text(KeywordChars["domik"]), i, c>> :
            i \in ImageCells, c \in ChildrenCells}
    \cup {<<Text(<<" ", "G", "1">>), Text(KeywordChars["domik"]), i>> : i \in ImageCells}

\* Names for _determine_category: for every set of keywords the text that
\* spells them in the order of the tests and the one that spells them in the
\* reverse order, in small letters and in capitals.
KeywordOrder == <<"domik", "kompleks", "pesochnic", "mini-besedk", "minibesedk", "besedk">>

Reverse(s) == [i \in DOMAIN s |-> s[Len(s) + 1 - i]]

RECURSIVE Spell(_)
Spell(keywords) ==
    IF keywords = <<>> THEN <<"x">>
    ELSE KeywordChars[Head(keywords)] \o <<" ">> \o Spell(Tail(keywords))

CategoryNames ==
    UNION {LET inOrder == SelectSeq(KeywordOrder, LAMBDA k : k \in S)
           IN {[name |-> n, keywords |-> S] :
                 n \in {Spell(inOrder), Spell(Reverse(inOrder)),
                        Upper(Spell(inOrder)), Upper(Spell(Reverse(inOrder)))}} :
           S \in SUBSET DOMAIN KeywordChars}

\* Column letters: every string of 1..MaxLetters capital letters, as it is,
\* in small letters, and with surrounding blanks.
RECURSIVE LetterStrings(_)
LetterStrings(n) ==
    IF n = 0 THEN {<<>>}
    ELSE {Append(s, Alphabet[i]) : s \in LetterStrings(n - 1), i \in DOMAIN Alphabet}

ColumnLetters == UNION {LetterStrings(n) : n \in 1..MaxLetters}

ColumnLetterSpellings ==
    ColumnLetters \cup {Lower(s) : s \in ColumnLetters}
    \cup {<<" ">> \o s \o <<" ">> : s \in LetterStrings(1)}

-----------------------------------------------------------------------------
(* CatalogSpec: the functions of ExcelReader, each applied to sampled input *)

Idle ==
    /\ catalog = <<>>
    /\ passport_listing = <<>>
    /\ allowed_categories = {}
    /\ pc = "idle"
    /\ products = <<>>
    /\ idx = 1
    /\ stats = EmptyStats
    /\ outcomes = <<>>
    /\ output_files = {}
    /\ process_calls = 0
    /\ summary = "none"
    /\ calls = <<>>
    /\ raised = {}
    /\ warnings = <<>>
    /\ technical_data = {}
    /\ passport_path = None

pipeline == <<catalog, passport_listing, allowed_categories, pc, products, idx, stats,
              outcomes, output_files, process_calls, summary, perProduct>>

CatalogInit ==
    /\ Idle
    /\ ret = <<>>
    /\ \/ arg = [fn |-> "get_products", row_index |-> 0, row |-> <<>>, products |-> <<>>]
       \/ \E letter \in ColumnLetterSpellings :
            arg = [fn |-> "_column_letter_to_index", letter |-> letter]
       \/ \E n \in CategoryNames :
            arg = [fn |-> "_determine_category", name |-> n.name, spelled |-> n.keywords]

\* One iteration of the loop of get_products: the next row of the sheet.
ReadRow ==
    /\ arg.fn = "get_products"
    /\ ret = <<>>
    /\ arg.row_index < MaxRows
    /\ \E row \in Rows :
         arg' = [arg EXCEPT !.row_index = @ + 1,
                            !.row = row,
                            !.products = @ \o RowProducts(row, arg.row_index)]
    /\ UNCHANGED <<pipeline, ret>>

\* get_products, line 95.
ReturnProducts ==
    /\ arg.fn = "get_products"
    /\ ret = <<>>
    /\ ret' = <<arg.products>>
    /\ UNCHANGED <<pipeline, arg>>

CallColumnLetterToIndex ==
    /\ arg.fn = "_column_letter_to_index"
    /\ ret = <<>>
    /\ ret' = <<ColumnLetterToIndex(arg.letter)>>
    /\ UNCHANGED <<pipeline, arg>>

CallDetermineCategory ==
    /\ arg.fn = "_determine_category"
    /\ ret = <<>>
    /\ ret' = <<DetermineCategory(KeywordsIn(Lower(arg.name)))>>
    /\ UNCHANGED <<pipeline, arg>>

CatalogNext ==
    \/ ReadRow
    \/ ReturnProducts
    \/ CallColumnLetterToIndex
    \/ CallDetermineCategory

CatalogSpec == CatalogInit /\ [][CatalogNext]_vars

-----------------------------------------------------------------------------
(* DOCXGenerator._prepare_replacements: the loads                          *)

MaxChildren == 12

\* Masses and forces are decimal fixed-point numbers, in thousandths.
\* get_mass_child(): the default 53.8 and other configured values; their
\* hundredths digit is even, so that no formatted value is a rounding tie.
MassChildValues == {53800, 32500, 53840, 20060, 60000, 500}

g == 10

LoadsWithoutGravity(children_count, mass_child) ==
    LET total_mass == children_count * mass_child
    IN [total_mass |-> total_mass,
        Fh |-> (2 * total_mass) \div 10,
        Fz |-> total_mass * g]

\* Lines 109-115: 0.2 is two tenths.
Loads(children_count, mass_child) ==
    LET total_mass == children_count * mass_child
    IN [total_mass |-> total_mass,
        Fh |-> ((2 * total_mass) \div 10) * g,
        Fz |-> total_mass * g]

\* round(x / unit), ties to the even neighbour.
RoundHalfEven(x, unit) ==
    LET q == x \div unit
        r == x % unit
    IN IF 2 * r > unit \/ (2 * r = unit /\ q % 2 = 1) THEN q + 1 ELSE q

\* f'{x:.1f}' and f'{x:.0f}' of a number given in thousandths.
Format(x, decimals) ==
    LET q == RoundHalfEven(Abs(x), IF decimals = 1 THEN 100 ELSE 1000)
        digits == IF decimals = 1
                  THEN NatStr(q \div 10) \o <<".">> \o NatStr(q % 10)
                  ELSE NatStr(q)
    IN Sign(x) \o digits

\* The entries of the replacements of lines 173-183, and the total mass of
\* the text of line 146.
LoadReplacements(children_count, mass_child) ==
    LET loads == Loads(children_count, mass_child)
    IN [loads |-> loads,
        children |-> Sign(children_count) \o NatStr(Abs(children_count)),
        mass_child |-> Format(mass_child, 1),
        total_mass |-> Format(loads.total_mass, 1),
        Fh |-> Format(loads.Fh, 1),
        Fz |-> Format(loads.Fz, 0)]

\* ---- The substitution of _process_document ----

MaxRuns == 2

\* A text of the document is a sequence of tokens: words, punctuation marks
\* and, where a number was formatted, its characters.
genitive_map ==
    ("Domiki" :> <<"igrovogo", "domika">>) @@
    ("Igrovye kompleksy" :> <<"igrovogo", "kompleksa">>) @@
    ("Igrovye elementy" :> <<"igrovogo", "elementa">>) @@
    ("Mini-besedki" :> <<"mini-besedki">>) @@
    ("Besedki" :> <<"besedki">>) @@
    ("Pesochnicy" :> <<"pesochnicy">>)

\* genitive_map.get(category, default)
GetCategoryGenitive(category) ==
    IF category \in DOMAIN genitive_map THEN genitive_map[category] ELSE <<"konstrukcii">>

\* The category keywords the lower-cased spelling of a word contains.
KeywordsOfWord(word) ==
    CASE word \in {"Domik", "domik"} -> {"domik"}
      [] word \in {"Pesochnica", "pesochnicy"} -> {"pesochnic"}
      [] word \in {"Besedka"} -> {"besedk"}
      [] OTHER -> {}

KeywordsOfName(name) == UNION {KeywordsOfWord(name[i]) : i \in DOMAIN name}

\* The products of the sampled catalog, as get_products returns them.
DocNames == {<<"Domik">>, <<"Domik", "dlya", "pesochnicy">>, <<"Pesochnica">>}

DocArticles == {<<"GA1">>, <<"GA8808">>}

DocProducts ==
    {[article |-> a, name |-> n, children_count |-> 4,
      category |-> DetermineCategory(KeywordsOfName(n))] : a \in DocArticles, n \in DocNames}

\* get_category_texts(category): no texts configured, or a general_info sentence.
CategoryTexts == {[general_info |-> <<>>], [general_info |-> <<"Obyekt", "rascheta">>]}

Replacement(old, new) == [old |-> old, new |-> new]

\* The dict of lines 160-190 in insertion order. Of the enhanced texts the
\* general one is kept, without its climatic clause.
Replacements(product_data, mass_child, category_texts) ==
    LET article == product_data.article
        name == product_data.name
        category_gen == GetCategoryGenitive(product_data.category)
        r == LoadReplacements(product_data.children_count, mass_child)
        enhanced_general ==
            category_texts.general_info \o name \o <<"(", "artikul">> \o article \o <<")", ".">>
    IN << Replacement(<<"Zmeyka", "bez", "pesochnicy", "art.", "810152">>,
                      name \o <<"art.">> \o article),
          Replacement(<<"Zmeyka", "bez", "pesochnicy">>, name),
          Replacement(<<"art.", "810152">>, <<"art.">> \o article),
          Replacement(<<"810152">>, article),
          Replacement(<<"GA8808">>, article),
          Replacement(<<"artikul", "GA8808">>, <<"artikul">> \o article),
          Replacement(<<"pesochnicy", ",", "artikul", "GA8808">>,
                      category_gen \o <<",", "artikul">> \o article),
          Replacement(<<"pesochnicy">>, category_gen),
          Replacement(<<"10", "detey">>, r.children \o <<"detey">>),
          Replacement(<<"32.5", "kg">>, r.mass_child \o <<"kg">>),
          Replacement(<<"32,5", "kg">>, r.mass_child \o <<"kg">>),
          Replacement(<<"Fh", "=", "646,8", "N">>, <<"Fh", "=">> \o r.Fh \o <<"N">>),
          Replacement(<<"Fh", "=", "646.8", "N">>, <<"Fh", "=">> \o r.Fh \o <<"N">>),
          Replacement(<<"Fz", "=", "6468", "N">>, <<"Fz", "=">> \o r.Fz \o <<"N">>),
          Replacement(<<"Fz", "=", "6468.0", "N">>, <<"Fz", "=">> \o r.Fz \o <<"N">>) >>
       \o (IF category_texts.general_info # <<>>
           THEN <<Replacement(category_texts.general_info, enhanced_general)>>
           ELSE <<>>)

\* str.replace(old, new): the occurrences from left to right, not overlapping.
RECURSIVE ReplaceAll(_, _, _)
ReplaceAll(text, old, new) ==
    IF Len(text) < Len(old) THEN text
    ELSE IF SubSeq(text, 1, Len(old)) = old
         THEN new \o ReplaceAll(SubSeq(text, Len(old) + 1, Len(text)), old, new)
         ELSE <<Head(text)>> \o ReplaceAll(Tail(text), old, new)

\* The loop of lines 227-230 from the i-th entry on.
RECURSIVE ApplyReplacements(_, _, _, _)
ApplyReplacements(full_text, modified, replacements, i) ==
    IF i > Len(replacements) THEN [full_text |-> full_text, modified |-> modified]
    ELSE IF Contains(full_text, replacements[i].old)
         THEN ApplyReplacements(ReplaceAll(full_text, replacements[i].old, replacements[i].new),
                                TRUE, replacements, i + 1)
         ELSE ApplyReplacements(full_text, modified, replacements, i + 1)

\* paragraph.text of a paragraph given by the texts of its runs.
RECURSIVE ParagraphText(_)
ParagraphText(runs) == IF runs = <<>> THEN <<>> ELSE Head(runs) \o ParagraphText(Tail(runs))

ReplaceInParagraphAlwaysCollapsing(runs, replacements) ==
    LET r == ApplyReplacements(ParagraphText(runs), FALSE, replacements, 1)
    IN IF runs # <<>>
       THEN [k \in DOMAIN runs |-> IF k = 1 THEN r.full_text ELSE <<>>]
       ELSE runs

\* _replace_in_paragraph, lines 222-238: the texts of the runs afterwards.
ReplaceInParagraph(runs, replacements) ==
    LET r == ApplyReplacements(ParagraphText(runs), FALSE, replacements, 1)
    IN IF r.modified
       THEN IF runs # <<>>
            THEN [k \in DOMAIN runs |-> IF k = 1 THEN r.full_text ELSE <<>>]
            ELSE <<r.full_text>>
       ELSE runs

\* Runs of the sampled templates, and the paragraphs made of them.
RunSamples ==
    { <<"Zmeyka", "bez">>,
      <<"pesochnicy", "art.", "810152">>,
      <<"Raschet", "pesochnicy", ",", "artikul", "GA8808">>,
      <<"10", "detey", "po", "32.5", "kg">>,
      <<"Fh", "=", "646,8", "N">>,
      <<"Obyekt", "rascheta">>,
      <<"Vvedenie">>,
      <<>> }

Paragraphs == UNION {[1..n -> RunSamples] : n \in 0..MaxRuns}

\* ---- The images of the document: _remove_extra_images, _insert_main_image ----

MaxParagraphs == 4

\* A body paragraph by what the two steps read of it: whether its text holds
\* "Ris. 1", "Obshchiy vid", "konstrukci", "OBSHCHIE SVEDENIYA", "ris" in
\* small letters, whether the stripped text is shorter than 50 characters,
\* and the drawings of its runs.
Para(fig1, general_view, construction, section, ris, short, images) ==
    [fig1 |-> fig1, general_view |-> general_view, construction |-> construction,
     section |-> section, ris |-> ris, short |-> short, images |-> images]

\* The paragraphs of a template after _remove_figure_captions: the Figure 1
\* caption with its drawing, a text with a drawing, a sentence on the general
\* view with a drawing, a sentence that refers to Figure 1 with a drawing,
\* the heading of the general section, a text without drawing.
ParagraphSamples ==
    { Para(TRUE, TRUE, TRUE, FALSE, TRUE, TRUE, <<"template">>),
      Para(FALSE, FALSE, FALSE, FALSE, FALSE, FALSE, <<"template">>),
      Para(FALSE, TRUE, FALSE, FALSE, FALSE, TRUE, <<"template">>),
      Para(TRUE, FALSE, FALSE, FALSE, TRUE, FALSE, <<"template">>),
      Para(FALSE, FALSE, FALSE, TRUE, FALSE, TRUE, <<>>),
      Para(FALSE, FALSE, FALSE, FALSE, FALSE, FALSE, <<>>) }

Documents == UNION {[1..n -> ParagraphSamples] : n \in 0..MaxParagraphs}

\* What can raise inside _insert_main_image: nothing, Image.open, add_picture.
ImageFaults == {"none", "open", "add_picture"}

\* _remove_extra_images, line 389.
KeepImage(paragraph) == paragraph.fig1 \/ paragraph.general_view

\* _remove_extra_images, lines 386-398.
RemoveExtraImages(doc) ==
    [i \in DOMAIN doc |-> IF KeepImage(doc[i]) THEN doc[i] ELSE [doc[i] EXCEPT !.images = <<>>]]

Min(S) == CHOOSE x \in S : \A y \in S : x <= y

\* _insert_main_image, lines 489-502: the position of the target paragraph,
\* 0 when there is none.
TargetIndex(doc) ==
    LET anchors  == {i \in DOMAIN doc :
                        doc[i].fig1 \/ (doc[i].general_view /\ doc[i].construction)}
        sections == {i \in DOMAIN doc : doc[i].section}
    IN IF anchors # {} THEN Min(anchors)
       ELSE IF sections # {} /\ Min(sections) + 3 <= Len(doc) THEN Min(sections) + 3
       ELSE 0

\* paragraph.clear()
ClearedParagraph == Para(FALSE, FALSE, FALSE, FALSE, FALSE, TRUE, <<>>)

\* The caption "Ris.1 Obshchiy vid izdeliya" of _add_image_caption.
CaptionParagraph == Para(FALSE, TRUE, FALSE, FALSE, TRUE, TRUE, <<>>)

\* _add_image_caption, lines 465-481: the next paragraph becomes the caption
\* when its text holds "ris", else a caption paragraph is put after the target.
AddImageCaption(doc, t) ==
    IF t < Len(doc) /\ doc[t + 1].ris
    THEN [doc EXCEPT ![t + 1] = CaptionParagraph]
    ELSE SubSeq(doc, 1, t) \o <<CaptionParagraph>> \o SubSeq(doc, t + 1, Len(doc))

\* _insert_main_image, lines 487-537; an exception is caught and logged.
InsertMainImage(doc, fault) ==
    LET t == TargetIndex(doc)
    IN IF t = 0 \/ fault = "open" THEN doc
       ELSE LET stripped == [doc[t] EXCEPT !.images = <<>>]
                cleared  == IF stripped.short THEN ClearedParagraph ELSE stripped
            IN IF fault = "add_picture" THEN [doc EXCEPT ![t] = cleared]
               ELSE AddImageCaption(
                        [doc EXCEPT ![t] = [cleared EXCEPT !.images = <<"product">>]], t)

\* ---- The output file name of generate_document ----

MaxNameLen == 3
MaxArticleLen == 2

NameLimit == 50

\* invalid_chars of _sanitize_filename, in its order.
InvalidChars == <<"<", ">", ":", "\"", "/", "\\", "|", "?", "*">>

InvalidCharsWithoutStar == SubSeq(InvalidChars, 1, Len(InvalidChars) - 1)

RECURSIVE ReplaceEach(_, _, _)
ReplaceEach(filename, chars, i) ==
    IF i > Len(chars) THEN filename
    ELSE ReplaceEach(ReplaceAll(filename, <<chars[i]>>, <<"_">>), chars, i + 1)

SanitizeFilenameKeepingStar(filename) == Strip(ReplaceEach(filename, InvalidCharsWithoutStar, 1))

\* _sanitize_filename, lines 560-563.
SanitizeFilename(filename) == Strip(ReplaceEach(filename, InvalidChars, 1))

\* s[:n]
Truncate(s, n) == SubSeq(s, 1, IF Len(s) < n THEN Len(s) ELSE n)

\* generate_document, lines 42-46: the article part, the name part, the file name.
ArticlePart(article) == ReplaceAll(ReplaceAll(article, <<"/">>, <<"-">>), <<"\\">>, <<"-">>)

NamePart(name) == SanitizeFilename(Truncate(name, NameLimit))

OutputFilename(article, name) ==
    ArticlePart(article) \o <<"_">> \o NamePart(name) \o <<"_", "R", "P", ".", "d", "o", "c", "x">>

\* The characters of the sampled names and articles: the nine invalid ones,
\* the blank, a letter and the underscore.
FilenameChars == {InvalidChars[i] : i \in DOMAIN InvalidChars} \cup {" ", "a", "_"}

RECURSIVE StringsOver(_, _)
StringsOver(chars, n) ==
    IF n = 0 THEN {<<>>}
    ELSE LET shorter == StringsOver(chars, n - 1)
         IN shorter \cup {Append(t, c) : t \in {u \in shorter : Len(u) = n - 1}, c \in chars}

\* A name that the limit cuts: letters up to two characters before the limit.
LongPrefix == [i \in 1..(NameLimit - 2) |-> "a"]

SampleNames == StringsOver(FilenameChars, MaxNameLen)

SampleLongNames ==
    {LongPrefix \o t : t \in {u \in StringsOver({"*", " ", "a"}, MaxNameLen) : Len(u) = MaxNameLen}}

SampleArticles == StringsOver(FilenameChars, MaxArticleLen) \ {<<>>}

SampleArticleNames == {<<"a">>, <<" ", "*", "a">>, LongPrefix \o <<"/", " ", "a">>}

DocInit ==
    /\ Idle
    /\ ret = <<>>
    /\ \/ \E n \in (-1)..MaxChildren, m \in MassChildValues :
            arg = [fn |-> "_prepare_replacements", children_count |-> n, mass_child |-> m]
       \/ \E runs \in Paragraphs, product_data \in DocProducts, texts \in CategoryTexts :
            arg = [fn |-> "_replace_in_paragraph", paragraph |-> runs,
                   product_data |-> product_data, category_texts |-> texts]
       \/ \E doc \in Documents, fault \in ImageFaults :
            arg = [fn |-> "_process_document", doc |-> doc, fault |-> fault]
       \/ \E n \in CategoryNames :
            arg = [fn |-> "_get_category_genitive",
                   product_data |-> [name |-> n.name,
                                     category |-> DetermineCategory(KeywordsIn(Lower(n.name)))]]
       \/ \E filename \in SampleNames \cup SampleLongNames :
            arg = [fn |-> "_sanitize_filename", filename |-> filename]
       \/ \E article \in SampleArticles, name \in SampleArticleNames :
            arg = [fn |-> "generate_document", article |-> article, name |-> name]

PrepareReplacements ==
    /\ arg.fn = "_prepare_replacements"
    /\ ret = <<>>
    /\ ret' = <<LoadReplacements(arg.children_count, arg.mass_child)>>
    /\ UNCHANGED <<pipeline, arg>>

\* One iteration of the loop of _process_document, lines 77-78, with the
\* replacements line 74 prepared for the product.
CallReplaceInParagraph ==
    /\ arg.fn = "_replace_in_paragraph"
    /\ ret = <<>>
    /\ ret' = <<ReplaceInParagraph(arg.paragraph,
                                   Replacements(arg.product_data, 53800, arg.category_texts))>>
    /\ UNCHANGED <<pipeline, arg>>

\* _prepare_replacements, lines 105 and 118, for a product of get_products.
CallGetCategoryGenitive ==
    /\ arg.fn = "_get_category_genitive"
    /\ ret = <<>>
    /\ ret' = <<GetCategoryGenitive(arg.product_data.category)>>
    /\ UNCHANGED <<pipeline, arg>>

\* _process_document, lines 93-97: the product's image exists (main.py 82).
ProcessImages ==
    /\ arg.fn = "_process_document"
    /\ ret = <<>>
    /\ LET kept == RemoveExtraImages(arg.doc)
       IN ret' = <<[doc |-> InsertMainImage(kept, arg.fault), target |-> TargetIndex(kept)]>>
    /\ UNCHANGED <<pipeline, arg>>

CallSanitizeFilename ==
    /\ arg.fn = "_sanitize_filename"
    /\ ret = <<>>
    /\ ret' = <<SanitizeFilename(arg.filename)>>
    /\ UNCHANGED <<pipeline, arg>>

\* generate_document up to line 46: the name of the output file.
BuildOutputFilename ==
    /\ arg.fn = "generate_document"
    /\ ret = <<>>
    /\ ret' = <<OutputFilename(arg.article, arg.name)>>
    /\ UNCHANGED <<pipeline, arg>>

DocNext ==
    \/ PrepareReplacements
    \/ CallReplaceInParagraph
    \/ CallSanitizeFilename
    \/ BuildOutputFilename
    \/ CallGetCategoryGenitive
    \/ ProcessImages

DocSpec == DocInit /\ [][DocNext]_vars

-----------------------------------------------------------------------------
(* PDFParser: find_passport and extract_technical_data on sampled passports *)

MaxPages == 5

\* Parameter names of the sampled passports: the keys of the pipeline, the
\* landing-zone parameter in capitals, and a name with the zone token only.
Length == [label |-> "Dlina", tokens |-> {}]
LandingZone == [label |-> "Razmer zony prizemleniya", tokens |-> {"zon", "prizemlen"}]
LandingZoneCapitals == [label |-> "RAZMER ZONY PRIZEMLENIYA", tokens |-> {"zon", "prizemlen"}]
SafetyZone == [label |-> "Zona bezopasnosti", tokens |-> {"zon"}]

Entry(value, unit) == [value |-> value, unit |-> unit]

\* A technical-data dict is a function from parameter names to entries.
NoData == [k \in {} |-> Entry("", "")]
LengthOnly == Length :> Entry("3000", "mm")
LengthAndLanding == (Length :> Entry("2500", "mm")) @@ (LandingZone :> Entry("5000", "mm"))
LandingOnly == LandingZoneCapitals :> Entry("4000", "mm")
LengthAndSafety == (Length :> Entry("1200", "mm")) @@ (SafetyZone :> Entry("1.5", "m"))

\* A table of a page: len(table), whether its first row holds both header
\* tokens, and what _parse_technical_table makes of it.
Table(rows, header, parsed) == [rows |-> rows, header |-> header, parsed |-> parsed]

\* A page: its tables, whether its text holds the section heading, and what
\* _parse_text_data makes of its text.
Page(tables, heading, text_data) ==
    [tables |-> tables, heading |-> heading, text_data |-> text_data]

PageSamples ==
    { Page(<<>>, FALSE, NoData),
      Page(<<Table(3, FALSE, LengthOnly), Table(2, TRUE, NoData),
             Table(3, TRUE, LengthAndSafety)>>, FALSE, NoData),
      Page(<<Table(3, TRUE, LengthAndLanding)>>, TRUE, LengthOnly),
      Page(<<Table(2, FALSE, LengthOnly), Table(3, FALSE, LandingOnly)>>, TRUE, LengthAndSafety),
      Page(<<Table(2, FALSE, LengthOnly)>>, TRUE, LengthAndLanding),
      Page(<<>>, TRUE, NoData) }

Passports == UNION {[1..n -> PageSamples] : n \in 0..MaxPages}

ParseTechnicalTable(table) == table.parsed

ParseTextData(page) == page.text_data

NotFound == [data |-> NoData, strategy |-> "none", page |-> 0, table |-> 0]

\* The loop over the tables of one page, from table t on: the first table
\* with more than min_rows rows, with the header where the strategy asks for
\* it, that parses to something.
RECURSIVE ScanTables(_, _, _, _)
ScanTables(tables, t, min_rows, with_header) ==
    IF t > Len(tables) THEN [data |-> NoData, table |-> 0]
    ELSE IF /\ tables[t].rows > min_rows
            /\ with_header => tables[t].header
            /\ DOMAIN ParseTechnicalTable(tables[t]) # {}
         THEN [data |-> ParseTechnicalTable(tables[t]), table |-> t]
         ELSE ScanTables(tables, t + 1, min_rows, with_header)

Strategy1Skipped(pages, p) == NotFound

\* Strategy 1, lines 46-64: the pages in order, the tables of a page in
\* order, the first table with the header that parses to something.
RECURSIVE Strategy1(_, _)
Strategy1(pages, p) ==
    IF p > Len(pages) THEN NotFound
    ELSE LET hit == ScanTables(pages[p].tables, 1, 1, TRUE)
         IN IF DOMAIN hit.data # {}
            THEN [data |-> hit.data, strategy |-> "header_table", page |-> p, table |-> hit.table]
            ELSE Strategy1(pages, p + 1)

ProbedPagesAscending == <<2, 3, 4>>

\* The 0-based page indices strategy 2 probes, in its order.
ProbedPages == <<3, 4, 2>>

\* Strategy 2, lines 67-90, from the i-th probe on.
RECURSIVE Strategy2(_, _)
Strategy2(pages, i) ==
    IF i > Len(ProbedPages) THEN NotFound
    ELSE LET page_idx == ProbedPages[i]
         IN IF page_idx < Len(pages) /\ pages[page_idx + 1].heading
            THEN LET page == pages[page_idx + 1]
                     hit == ScanTables(page.tables, 1, 2, FALSE)
                     found == IF DOMAIN hit.data # {}
                              THEN [data |-> hit.data, strategy |-> "page_table",
                                    page |-> page_idx + 1, table |-> hit.table]
                              ELSE [data |-> ParseTextData(page), strategy |-> "text",
                                    page |-> page_idx + 1, table |-> 0]
                 IN IF DOMAIN found.data # {} THEN found ELSE Strategy2(pages, i + 1)
            ELSE Strategy2(pages, i + 1)

\* Lines 95-105 on a dict.
PostProcess(data) == [k \in RemoveLandingZone(DOMAIN data) |-> data[k]]

\* extract_technical_data for a file that exists and that pdfplumber reads:
\* the dict returned, and where its entries came from.
Extraction(pages) ==
    LET first == Strategy1(pages, 1)
        found == IF DOMAIN first.data # {} THEN first ELSE Strategy2(pages, 1)
    IN [exc |-> "none",
        data |-> PostProcess(found.data),
        raw |-> found.data,
        strategy |-> found.strategy,
        page |-> found.page,
        table |-> found.table,
        strategy2_entered |-> DOMAIN first.data = {}]

\* The passports directory as glob enumerates it: several names, in any order.
FileNames == {<<1>>, <<1, 2>>, <<2, 1>>, <<3, 3>>}

Enumerations ==
    {s \in UNION {[1..n -> FileNames] : n \in 0..Cardinality(FileNames)} :
        \A i, j \in DOMAIN s : i # j => s[i] # s[j]}

PassportInit ==
    /\ Idle
    /\ ret = <<>>
    /\ \/ \E pages \in Passports : arg = [fn |-> "extract_technical_data", pages |-> pages]
       \/ \E article \in Articles, listing \in Enumerations :
            arg = [fn |-> "find_passport", article |-> article, listing |-> listing]

\* extract_technical_data: the dict, or the exception that wraps whatever
\* pdfplumber raised.
CallExtractTechnicalData ==
    /\ arg.fn = "extract_technical_data"
    /\ ret = <<>>
    /\ \E exc \in BOOLEAN :
         ret' = IF exc THEN <<[exc |-> "Exception"]>> ELSE <<Extraction(arg.pages)>>
    /\ UNCHANGED <<pipeline, arg>>

CallFindPassport ==
    /\ arg.fn = "find_passport"
    /\ ret = <<>>
    /\ ret' = <<FindPassport(arg.article, arg.listing)>>
    /\ UNCHANGED <<pipeline, arg>>

PassportNext ==
    \/ CallExtractTechnicalData
    \/ CallFindPassport

PassportSpec == PassportInit /\ [][PassportNext]_vars

-----------------------------------------------------------------------------
(* Properties                                                              *)

\* A product has just reached its terminal outcome; calls, raised, warnings
\* and technical_data are still those of that product.
Settled ==
    /\ pc \in {"loop", "summary", "done"}
    /\ outcomes # <<>>
    /\ Len(outcomes) <= Len(products)

LastProduct == products[Len(outcomes)]
LastOutcome == outcomes[Len(outcomes)].outcome
LastCall == calls[Len(calls)]

Range(seq) == {seq[k] : k \in DOMAIN seq}

Logged(error_code) == Cardinality({k \in DOMAIN outcomes : outcomes[k].outcome = error_code})

OneOutcomePerProduct ==
    /\ Len(outcomes) <= Len(products)
    /\ \A k \in DOMAIN outcomes : outcomes[k].row = k

TerminalOutcomes == {"OK"} \cup ProductErrorCodes

GateOrder == <<"image", "passport", "extract", "generate">>

\* C1: in every reachable state, RunStatistics.total = success + the sum of
\* the counts of all error kinds.
C1_TotalIsSuccessPlusErrors ==
    stats.total = stats.success + ErrorTotal(stats)

C1_Witness ==
    /\ stats.success >= 1
    /\ ErrorTotal(stats) >= 1
    /\ Cardinality(DOMAIN stats.errors) >= 1

\* C2: no exception leaves process_product; the outcomes are logged one per
\* product in catalog order; the run eventually ends, by a start-up abort or
\* by the summary, and when it ends by the summary every product of the
\* filtered list has its terminal outcome.
C2_PerProductFailureIsolated ==
    /\ [](/\ pc \in {"start", "load", "filter", "loop", "image", "passport", "extract",
                     "generate", "summary", "done", "aborted"}
          /\ OneOutcomePerProduct
          /\ \A k \in DOMAIN outcomes : outcomes[k].outcome \in TerminalOutcomes)
    /\ [](pc = "done" => Len(outcomes) = Len(products))
    /\ <>(pc \in {"done", "aborted"})

\* A product fails (here by an exception of the passport lookup) and the
\* product after it is processed to success.
C2_Witness ==
    /\ Len(outcomes) = 2
    /\ outcomes[1].outcome = "ERR_UNKNOWN"
    /\ outcomes[2].outcome = "OK"
    /\ pc = "done"

\* C3: the gates are evaluated in the order image, passport, extraction,
\* generation; no gate is evaluated after a gate that failed or raised; a
\* product is logged once, with the error kind of the gate that stopped it, so
\* a product with neither image nor passport is logged as ERR_NO_IMAGE.
C3_GatesShortCircuitInOrder ==
    /\ Len(calls) <= Len(GateOrder)
    /\ \A k \in DOMAIN calls :
         /\ calls[k].gate = GateOrder[k]
         /\ k < Len(calls) => calls[k].result = "pass"
    /\ OneOutcomePerProduct
    /\ Settled =>
         /\ calls # <<>>
         /\ LastCall.result = "fail" =>
              LastOutcome = (IF LastCall.gate = "image" THEN "ERR_NO_IMAGE"
                             ELSE "ERR_NO_PASSPORT")
         /\ LastOutcome = "ERR_NO_IMAGE" => Len(calls) = 1
         /\ LastOutcome = "ERR_NO_PASSPORT" => Len(calls) = 2
         /\ LastOutcome = "ERR_PDF_PARSE" => Len(calls) = 3
         /\ LastOutcome \in {"ERR_TEMPLATE", "OK"} => Len(calls) = 4
         /\ (LastProduct.image_path \notin ExistingPaths
             /\ GlobMatches(LastProduct.article, passport_listing) = <<>>)
              => LastOutcome = "ERR_NO_IMAGE"

C3_Witness ==
    /\ Settled
    /\ LastProduct.image_path \notin ExistingPaths
    /\ GlobMatches(LastProduct.article, passport_listing) = <<>>
    /\ LastOutcome = "ERR_NO_IMAGE"
    /\ calls = <<[gate |-> "image", result |-> "fail"]>>

\* C4: a product whose image path is empty or does not exist is logged as
\* ERR_NO_IMAGE exactly once, only the image gate is evaluated for it, no
\* output file is created for it, and the loop is at the next product.
C4_NoImageStopsProduct ==
    /\ Logged("ERR_NO_IMAGE") = ErrorCount(stats, "ERR_NO_IMAGE")
    /\ (Settled /\ (LastProduct.image_path = "" \/ LastProduct.image_path \notin ExistingPaths))
         => /\ LastOutcome = "ERR_NO_IMAGE"
            /\ OneOutcomePerProduct
            /\ calls = <<[gate |-> "image", result |-> "fail"]>>
            /\ OutputPath(LastProduct) \in output_files =>
                 \E j \in 1..(Len(outcomes) - 1) :
                    /\ OutputPath(products[j]) = OutputPath(LastProduct)
                    /\ outcomes[j].outcome \in {"OK", "ERR_TEMPLATE"}
            /\ idx = Len(outcomes) + 1
            /\ pc = "loop" /\ idx <= Len(products) => ENABLED BeginProduct

\* The first product has a path that does not exist, and the second product
\* is being processed.
C4_Witness ==
    /\ Len(outcomes) = 1
    /\ products[1].image_path = "missing.png"
    /\ outcomes[1].outcome = "ERR_NO_IMAGE"
    /\ stats.errors = [c \in {"ERR_NO_IMAGE"} |-> 1]
    /\ output_files = {}
    /\ pc = "image"
    /\ idx = 2

\* C5: for a product with a valid image whose glob ran and matched no file,
\* find_passport returned None, ERR_NO_PASSPORT is logged exactly once,
\* extraction and generation are not evaluated, and the loop is at the next
\* product.
C5_NoPassportStopsProduct ==
    /\ Logged("ERR_NO_PASSPORT") = ErrorCount(stats, "ERR_NO_PASSPORT")
    /\ (/\ Settled
        /\ LastProduct.image_path \in ExistingPaths
        /\ GlobMatches(LastProduct.article, passport_listing) = <<>>
        /\ Len(calls) >= 2
        /\ calls[2].result # "raise")
         => /\ passport_path = None
            /\ LastOutcome = "ERR_NO_PASSPORT"
            /\ OneOutcomePerProduct
            /\ calls = <<[gate |-> "image", result |-> "pass"],
                         [gate |-> "passport", result |-> "fail"]>>
            /\ idx = Len(outcomes) + 1
            /\ pc = "loop" /\ idx <= Len(products) => ENABLED BeginProduct

\* The directory holds a passport, of another article; the product after the
\* one without passport is being processed.
C5_Witness ==
    /\ Len(outcomes) = 1
    /\ products[1].image_path = "ok.png"
    /\ passport_listing # <<>>
    /\ GlobMatches(products[1].article, passport_listing) = <<>>
    /\ outcomes[1].outcome = "ERR_NO_PASSPORT"
    /\ stats.errors = [c \in {"ERR_NO_PASSPORT"} |-> 1]
    /\ pc = "image"
    /\ idx = 2

\* C6: an empty extraction result is no failure of gate 3: no error is logged
\* for it, exactly the warning is logged, and generation is entered with the
\* empty map; ERR_PDF_PARSE is logged only when extraction raised.
C6_EmptyTechnicalDataTolerated ==
    /\ pc = "generate" =>
         /\ calls[3] = [gate |-> "extract", result |-> "pass"]
         /\ Len(outcomes) = idx - 1
         /\ technical_data = {} <=> warnings = <<"no_technical_data">>
         /\ technical_data # {} => warnings = <<>>
         /\ ENABLED GenerateGate
    /\ Settled /\ Len(calls) >= 3 =>
         /\ calls[3].result \in {"pass", "raise"}
         /\ LastOutcome = "ERR_PDF_PARSE" <=> calls[3].result = "raise"
         /\ calls[3].result = "pass" /\ technical_data = {} =>
              /\ "no_technical_data" \in Range(warnings)
              /\ Len(calls) = 4
              /\ LastOutcome \in {"OK", "ERR_TEMPLATE"}
    /\ Logged("ERR_PDF_PARSE") = ErrorCount(stats, "ERR_PDF_PARSE")

\* A product whose extraction returned the empty map ended as a success.
C6_Witness ==
    /\ Settled
    /\ technical_data = {}
    /\ warnings = <<"no_technical_data">>
    /\ LastOutcome = "OK"
    /\ OutputPath(LastProduct) \in output_files
    /\ ErrorTotal(stats) = 0

\* C7: an exception raised while a product is processed is logged exactly
\* once, as ERR_PDF_PARSE when extraction raised it, as ERR_TEMPLATE when
\* generation raised it, and as ERR_UNKNOWN when it arose before gate 3.
C7_ExceptionsMapToGateErrorKind ==
    /\ OneOutcomePerProduct
    /\ \A c \in ProductErrorCodes : Logged(c) = ErrorCount(stats, c)
    /\ Settled =>
         /\ calls # <<>>
         /\ LastCall.result = "raise" =>
              LastOutcome = (IF LastCall.gate = "extract" THEN "ERR_PDF_PARSE"
                             ELSE IF LastCall.gate = "generate" THEN "ERR_TEMPLATE"
                             ELSE "ERR_UNKNOWN")
         /\ LastOutcome \in {"ERR_PDF_PARSE", "ERR_TEMPLATE", "ERR_UNKNOWN"} =>
              LastCall.result = "raise"

\* Generation raised for the first product, the passport lookup for the second.
C7_Witness ==
    /\ Len(outcomes) = 2
    /\ outcomes[1].outcome = "ERR_TEMPLATE"
    /\ outcomes[2].outcome = "ERR_UNKNOWN"
    /\ LastCall = [gate |-> "passport", result |-> "raise"]
    /\ stats.total = 2
    /\ stats.success = 0

\* C8: when a secondary refinement step of document assembly raised, the
\* document is still saved, the failure is logged as a warning, and the
\* product is a success.
C8_RefinementFailureDoesNotAbort ==
    (Settled /\ raised \cap RefinementSteps # {}) =>
        /\ LastOutcome = "OK"
        /\ OutputPath(LastProduct) \in output_files
        /\ raised \cap RefinementSteps \subseteq Range(warnings)

\* C9: when the field refresh raised, the document had been saved, a warning
\* is logged, generate_document returns, and the product is a success.
C9_FieldRefreshFailureIsWarning ==
    (Settled /\ "update_fields_com" \in raised) =>
        /\ LastOutcome = "OK"
        /\ LastCall = [gate |-> "generate", result |-> "pass"]
        /\ "update_fields_com" \in Range(warnings)
        /\ OutputPath(LastProduct) \in output_files
        /\ stats.success = Logged("OK")
        /\ stats.success >= 1

C9_Witness ==
    /\ Settled
    /\ raised = {"update_fields_com"}
    /\ warnings = <<"update_fields_com">>
    /\ LastOutcome = "OK"
    /\ stats.success = 1
    /\ pc = "done"

\* C10: once ERR_INIT or ERR_EXCEL_READ is logged, run() has returned:
\* process_product was never called, no output file was created, and no
\* per-product outcome is logged.
C10_StartupFailureAborts ==
    /\ (ErrorCount(stats, "ERR_INIT") > 0 \/ ErrorCount(stats, "ERR_EXCEL_READ") > 0) =>
         /\ pc = "aborted"
         /\ process_calls = 0
         /\ output_files = {}
         /\ outcomes = <<>>
         /\ stats.success = 0
         /\ \A c \in ProductErrorCodes : ErrorCount(stats, c) = 0
         /\ stats.total = 1
         /\ summary = "none"
    /\ pc = "aborted" =>
         /\ ~ ENABLED Next
         /\ ErrorCount(stats, "ERR_INIT") + ErrorCount(stats, "ERR_EXCEL_READ") = 1

\* Component construction failed although the catalog holds products whose
\* images and passports exist.
C10_Witness ==
    /\ pc = "aborted"
    /\ ErrorCount(stats, "ERR_INIT") = 1
    /\ Len(catalog) = MaxProducts
    /\ \A k \in DOMAIN catalog :
         /\ catalog[k].image_path \in ExistingPaths
         /\ GlobMatches(catalog[k].article, passport_listing) # <<>>

C10_WitnessCatalogUnreadable ==
    /\ pc = "aborted"
    /\ ErrorCount(stats, "ERR_EXCEL_READ") = 1
    /\ catalog # <<>>

\* C11: category filtering is applied once, before the loop: from then on the
\* products of the run are, in catalog order, exactly the catalog records
\* whose derived category is in a non-empty allow-list, and the whole catalog
\* when the allow-list is empty; only those are processed and counted.
C11_OnlyAllowedCategoriesProcessed ==
    pc \in {"loop", "image", "passport", "extract", "generate", "summary", "done"} =>
        /\ allowed_categories # {} =>
              products = SelectSeq(catalog,
                                   LAMBDA p : DetermineCategory(p.name) \in allowed_categories)
        /\ allowed_categories = {} => products = catalog
        /\ process_calls <= Len(products)
        /\ stats.total = Len(outcomes)
        /\ \A k \in DOMAIN outcomes : outcomes[k].row \in DOMAIN products
        /\ pc = "done" => stats.total = Len(products) /\ process_calls = Len(products)

C11_Witness ==
    /\ pc = "done"
    /\ allowed_categories # {}
    /\ Len(catalog) = 2
    /\ Len(products) = 1
    /\ stats.total = 1

C11_WitnessNoAllowList ==
    /\ pc = "done"
    /\ allowed_categories = {}
    /\ Len(catalog) = 2
    /\ stats.total = 2
    /\ \E k \in DOMAIN catalog : catalog[k].category # "Domiki"

\* The row the loop of get_products has just handled, and what it appended.
LastRow == arg.row
LastRowProducts == SelectSeq(arg.products, LAMBDA p : p.row_index = arg.row_index - 1)
CellOf(row, column) == SafeGetValue(row, ColumnLetterToIndex(column))
NonBlankText(cell) == cell.kind = "str" /\ \E i \in DOMAIN cell.s : cell.s[i] \notin Whitespace

\* C12: every record get_products has collected has a non-empty article and
\* a non-empty name, whatever the cells hold, and there are at most as many
\* records as rows read.
C12_RecordsHaveArticleAndName ==
    arg.fn = "get_products" =>
        /\ \A k \in DOMAIN arg.products :
             arg.products[k].article # <<>> /\ arg.products[k].name # <<>>
        /\ Len(arg.products) <= arg.row_index

\* C13: a row whose article and name are non-blank texts yields a record
\* whatever the childrenCount cell holds, with childrenCount 1 when the cell
\* is absent or is a text that is no numeral.
C13_ChildrenCountNeverFailsRow ==
    (/\ arg.fn = "get_products"
     /\ LastRow # <<>>
     /\ NonBlankText(CellOf(LastRow, column_mapping.article))
     /\ NonBlankText(CellOf(LastRow, column_mapping.name))) =>
        /\ Len(LastRowProducts) = 1
        /\ LET cell == CellOf(LastRow, column_mapping.children_count)
           IN (cell.kind = "none" \/ (cell.kind = "str" /\ ParseFloat(cell.s).exc # "none"))
                  => LastRowProducts[1].children_count = 1

\* C14: the childrenCount of every record is an integer that is not
\* negative, whatever number the cell holds.
C14_ChildrenCountNotNegative ==
    arg.fn = "get_products" =>
        \A k \in DOMAIN arg.products : arg.products[k].children_count \in Nat

\* Bijective base-26: the value the claim gives a string of capital letters,
\* and the string it gives an index.
RECURSIVE Base26(_)
Base26(s) ==
    IF Len(s) = 1 THEN PositionIn(s[1], Alphabet) - 1
    ELSE 26 * (Base26(SubSeq(s, 1, Len(s) - 1)) + 1) + (PositionIn(s[Len(s)], Alphabet) - 1)

RECURSIVE LettersOf(_)
LettersOf(n) ==
    IF n < 26 THEN <<Alphabet[n + 1]>>
    ELSE LettersOf((n \div 26) - 1) \o <<Alphabet[(n % 26) + 1]>>

ColumnCount == Cardinality(ColumnLetters)

EveryIndexHit ==
    \A n \in 0..(ColumnCount - 1) :
        LettersOf(n) \in ColumnLetters /\ ColumnLetterToIndex(LettersOf(n)) = n

\* C15: _column_letter_to_index is bijective base-26 on letter strings read
\* case-insensitively: A is 0, B 1, Z 25, AA 26, AB 27, index(s + c) is
\* 26 * (index(s) + 1) + (c - 'A'), the string is recovered from its index,
\* and every index below the number of strings is the index of a string.
C15_ColumnLettersBijectiveBase26 ==
    /\ EveryIndexHit
    /\ (arg.fn = "_column_letter_to_index" /\ ret # <<>>) =>
         LET s == Upper(Strip(arg.letter))
             index == ret[1]
         IN /\ index \in 0..(ColumnCount - 1)
            /\ index = Base26(s)
            /\ LettersOf(index) = s
            /\ s = <<"A">> => index = 0
            /\ s = <<"B">> => index = 1
            /\ s = <<"Z">> => index = 25
            /\ s = <<"A", "A">> => index = 26
            /\ s = <<"A", "B">> => index = 27

C15_Witness ==
    /\ arg.fn = "_column_letter_to_index"
    /\ arg.letter = <<"a", "b">>
    /\ ret = <<27>>

\* The order of the tests the claim states, and the category of each.
CategoryPriority ==
    << [keywords |-> {"domik"}, category |-> "Domiki"],
       [keywords |-> {"kompleks"}, category |-> "Igrovye kompleksy"],
       [keywords |-> {"pesochnic"}, category |-> "Pesochnicy"],
       [keywords |-> {"mini-besedk", "minibesedk"}, category |-> "Mini-besedki"],
       [keywords |-> {"besedk"}, category |-> "Besedki"] >>

HighestPriorityCategory(present) ==
    LET hits == {i \in DOMAIN CategoryPriority : CategoryPriority[i].keywords \cap present # {}}
    IN IF hits = {} THEN "Igrovye elementy"
       ELSE CategoryPriority[CHOOSE i \in hits : \A j \in hits : i <= j].category

\* C16: the category of a name is that of the highest-priority keyword among
\* those the name spells, whatever the other keywords, their order and the
\* case; a name with the mini-gazebo and the gazebo keyword is a mini-gazebo.
C16_CategoryFirstMatchWins ==
    (arg.fn = "_determine_category" /\ ret # <<>>) =>
        /\ ret[1] = HighestPriorityCategory(arg.spelled)
        /\ "mini-besedk" \in arg.spelled => ret[1] # "Besedki"

C16_Witness ==
    /\ arg.fn = "_determine_category"
    /\ arg.spelled = {"mini-besedk", "besedk"}
    /\ arg.name = Upper(Spell(<<"besedk", "mini-besedk">>))
    /\ ret = <<"Mini-besedki">>

Extracted == arg.fn = "extract_technical_data" /\ ret # <<>> /\ ret[1].exc = "none"

IsLandingZone(k) == "zon" \in k.tokens /\ "prizemlen" \in k.tokens

\* C18: the dict extract_technical_data returns has no key with both the
\* zone and the landing token, whichever strategy produced the entries, and
\* every other entry the strategy produced is in it, unchanged.
C18_LandingZoneAlwaysExcluded ==
    Extracted =>
        LET r == ret[1]
        IN /\ \A k \in DOMAIN r.data : ~IsLandingZone(k)
           /\ DOMAIN r.data \subseteq DOMAIN r.raw
           /\ \A k \in DOMAIN r.raw :
                ~IsLandingZone(k) => k \in DOMAIN r.data /\ r.data[k] = r.raw[k]

C18_Witness ==
    /\ Extracted
    /\ ret[1].strategy = "text"
    /\ DOMAIN ret[1].raw = {Length, LandingZone}
    /\ ret[1].data = (Length :> Entry("2500", "mm"))

C18_WitnessHeaderTable ==
    /\ Extracted
    /\ ret[1].strategy = "header_table"
    /\ DOMAIN ret[1].raw = {Length, SafetyZone}
    /\ ret[1].data = ret[1].raw

C18_WitnessPageTable ==
    /\ Extracted
    /\ ret[1].strategy = "page_table"
    /\ DOMAIN ret[1].raw = {LandingZoneCapitals}
    /\ DOMAIN ret[1].data = {}

\* The tables, by page and position, whose first row holds both header
\* tokens and that parse to a non-empty dict.
HeaderHits ==
    {h \in (1..MaxPages) \X (1..3) :
        /\ h[1] \in DOMAIN arg.pages
        /\ h[2] \in DOMAIN arg.pages[h[1]].tables
        /\ arg.pages[h[1]].tables[h[2]].header
        /\ DOMAIN arg.pages[h[1]].tables[h[2]].parsed # {}}

Before(h1, h2) == h1[1] < h2[1] \/ (h1[1] = h2[1] /\ h1[2] <= h2[2])

\* C19: when some table has the header and parses to something, the result
\* comes from the first such table in page and table order and strategy 2
\* (page heuristic, free text) is not entered; strategy 2 is entered only
\* when there is no such table.
C19_HeaderTableStrategyFirst ==
    Extracted =>
        LET r == ret[1]
        IN IF HeaderHits # {}
           THEN /\ r.strategy = "header_table"
                /\ <<r.page, r.table>> \in HeaderHits
                /\ \A h \in HeaderHits : Before(<<r.page, r.table>>, h)
                /\ r.raw = arg.pages[r.page].tables[r.table].parsed
                /\ ~r.strategy2_entered
           ELSE /\ r.strategy \in {"page_table", "text", "none"}
                /\ r.strategy2_entered

C19_Witness ==
    /\ Extracted
    /\ Len(arg.pages) = 4
    /\ arg.pages[4].heading
    /\ arg.pages[4].text_data # NoData
    /\ Cardinality(HeaderHits) >= 2
    /\ ret[1].strategy = "header_table"
    /\ ret[1].page = 2
    /\ ret[1].table = 3

C19_WitnessLaterStrategy ==
    /\ Extracted
    /\ HeaderHits = {}
    /\ ret[1].strategy = "text"
    /\ ret[1].page = 5

RECURSIVE LexLeq(_, _)
LexLeq(a, b) ==
    \/ a = <<>>
    \/ /\ b # <<>>
       /\ \/ Head(a) < Head(b)
          \/ Head(a) = Head(b) /\ LexLeq(Tail(a), Tail(b))

\* C20: find_passport returns the lexicographically first of the names that
\* match the article, whatever the order of enumeration, and not-found when
\* none matches.
C20_FirstLexicographicMatch ==
    (arg.fn = "find_passport" /\ ret # <<>>) =>
        LET matching == {f \in Range(arg.listing) : Contains(f, arg.article)}
        IN IF matching = {} THEN ret[1] = None
           ELSE ret[1] \in matching /\ \A f \in matching : LexLeq(ret[1], f)

\* The call of _replace_in_paragraph has returned, and what it was given.
Replaced == arg.fn = "_replace_in_paragraph" /\ ret # <<>>
GivenReplacements == Replacements(arg.product_data, 53800, arg.category_texts)
HasKey(text) == \E i \in DOMAIN GivenReplacements : Contains(text, GivenReplacements[i].old)

\* C21: a paragraph whose text holds none of the keys keeps its runs, their
\* number and the text of each; a paragraph with a key has its whole text in
\* the first run and every later run empty.
C21_ParagraphWithoutKeyUntouched ==
    Replaced =>
        IF HasKey(ParagraphText(arg.paragraph))
        THEN /\ Len(ret[1]) = Len(arg.paragraph)
             /\ \A k \in DOMAIN ret[1] : k > 1 => ret[1][k] = <<>>
        ELSE ret[1] = arg.paragraph

C21_Witness ==
    /\ Replaced
    /\ arg.paragraph = << <<"Vvedenie">>, <<"Zmeyka", "bez">> >>
    /\ ret[1] = arg.paragraph

C21_WitnessCollapsed ==
    /\ Replaced
    /\ arg.paragraph = << <<"Zmeyka", "bez">>, <<"pesochnicy", "art.", "810152">> >>
    /\ arg.product_data.name = <<"Domik">>
    /\ ret[1] = << <<"Domik", "art.">> \o arg.product_data.article, <<>> >>

\* The text cut into pieces, those inserted as a replacement value frozen.
Piece(frozen, text) == [frozen |-> frozen, text |-> text]

RECURSIVE SplitOn(_, _, _, _)
SplitOn(text, old, new, pending) ==
    IF Len(text) < Len(old) THEN <<Piece(FALSE, pending \o text)>>
    ELSE IF SubSeq(text, 1, Len(old)) = old
         THEN <<Piece(FALSE, pending), Piece(TRUE, new)>>
              \o SplitOn(SubSeq(text, Len(old) + 1, Len(text)), old, new, <<>>)
         ELSE SplitOn(Tail(text), old, new, Append(pending, Head(text)))

RECURSIVE SplitPieces(_, _, _)
SplitPieces(pieces, old, new) ==
    IF pieces = <<>> THEN <<>>
    ELSE (IF Head(pieces).frozen THEN <<Head(pieces)>>
          ELSE SplitOn(Head(pieces).text, old, new, <<>>))
         \o SplitPieces(Tail(pieces), old, new)

RECURSIVE IndependentPieces(_, _, _)
IndependentPieces(pieces, replacements, i) ==
    IF i > Len(replacements) THEN pieces
    ELSE IndependentPieces(SplitPieces(pieces, replacements[i].old, replacements[i].new),
                           replacements, i + 1)

RECURSIVE JoinPieces(_)
JoinPieces(pieces) ==
    IF pieces = <<>> THEN <<>> ELSE Head(pieces).text \o JoinPieces(Tail(pieces))

\* Every entry applied to the original text only: what an entry inserted is
\* out of reach of the entries after it.
IndependentReplace(text, replacements) ==
    JoinPieces(IndependentPieces(<<Piece(FALSE, text)>>, replacements, 1))

\* C22: the text of the paragraph afterwards is the original text with the
\* entries applied independently: each key replaced by its own value, and no
\* value an entry inserted modified by a later entry.
C22_EntriesAppliedIndependently ==
    Replaced =>
        ParagraphText(ret[1]) = IndependentReplace(ParagraphText(arg.paragraph), GivenReplacements)

IsInvalidChar(c) == c \in {"<", ">", ":", "\"", "/", "\\", "|", "?", "*"}

\* C23: _sanitize_filename puts an underscore for every one of the nine
\* characters, keeps every other character, trims the surrounding blanks,
\* and applied to its own result changes nothing.
C23_SanitizeReplacesTrimsIdempotent ==
    (arg.fn = "_sanitize_filename" /\ ret # <<>>) =>
        /\ ret[1] = Strip([i \in DOMAIN arg.filename |->
                              IF IsInvalidChar(arg.filename[i]) THEN "_" ELSE arg.filename[i]])
        /\ \A i \in DOMAIN ret[1] : ~IsInvalidChar(ret[1][i])
        /\ SanitizeFilename(ret[1]) = ret[1]

C23_Witness ==
    /\ arg.fn = "_sanitize_filename"
    /\ arg.filename = <<" ", "*", "/">>
    /\ ret = << <<"_", "_">> >>

\* C28: the output file name holds none of the nine characters, whatever the
\* article and the name.
C28_FilenameHasNoInvalidChar ==
    (arg.fn = "generate_document" /\ ret # <<>>) =>
        \A i \in DOMAIN ret[1] : ~IsInvalidChar(ret[1][i])

Succeeded == {k \in DOMAIN outcomes : outcomes[k].outcome = "OK"}

\* C24: the successfully processed products are written to pairwise distinct
\* output paths, so at the end of the run there are as many documents of
\* successful products as successes.
C24_OneDocumentPerSuccess ==
    pc = "done" =>
        /\ \A j, k \in Succeeded :
              j # k => OutputPath(products[j]) # OutputPath(products[k])
        /\ Cardinality({OutputPath(products[k]) : k \in Succeeded}) = stats.success

\* C27: a file is in the output directory only for a product recorded as a
\* success; a product recorded as ERR_TEMPLATE leaves none.
C27_NoFileWithoutSuccess ==
    \A k \in DOMAIN outcomes :
        outcomes[k].outcome = "ERR_TEMPLATE" =>
            \/ OutputPath(products[k]) \notin output_files
            \/ \E j \in Succeeded : OutputPath(products[j]) = OutputPath(products[k])

InsideProcessProduct == pc \in {"image", "passport", "extract", "generate"}

\* C29: every call of process_product that has returned made exactly one
\* log_success or log_error call; the summary is produced only after the
\* last product's outcome, and then total is the number of products left by
\* the category filter and success the number of products that returned True.
C29_EachProductCountedOnce ==
    /\ pc \in {"loop", "image", "passport", "extract", "generate", "summary", "done"} =>
          /\ stats.total = IF InsideProcessProduct THEN process_calls - 1 ELSE process_calls
          /\ stats.success = Cardinality(Succeeded)
          /\ \A k \in DOMAIN outcomes : outcomes[k].row = k
    /\ pc = "done" =>
          /\ summary = stats
          /\ Len(outcomes) = Len(products)
          /\ process_calls = Len(products)
          /\ summary.total = Len(products)
          /\ summary.success = Cardinality(Succeeded)

C29_Witness ==
    /\ pc = "done"
    /\ Len(products) = 2
    /\ summary.total = 2
    /\ summary.success = 1
    /\ outcomes[1].outcome = "OK"
    /\ outcomes[2].outcome = "ERR_NO_IMAGE"

\* C30: the category get_products derives from a name is a key of the
\* genitive table, and the genitive form of the product is the table's
\* entry, never the form kept for an unknown category.
C30_CategoryAlwaysInGenitiveTable ==
    arg.fn = "_get_category_genitive" =>
        /\ arg.product_data.category \in DOMAIN genitive_map
        /\ ret # <<>> =>
              /\ ret[1] = genitive_map[arg.product_data.category]
              /\ ret[1] # <<"konstrukcii">>

C30_Witness ==
    /\ arg.fn = "_get_category_genitive"
    /\ arg.product_data.category = "Igrovye elementy"
    /\ ret = << <<"igrovogo", "elementa">> >>

\* What one probed page with the heading gives: the first table of more than
\* two rows that parses to something, else what the page's text gives.
OnProbedPage(page) ==
    LET parsed == SelectSeq(page.tables, LAMBDA t : t.rows > 2 /\ DOMAIN t.parsed # {})
    IN IF parsed # <<>>
       THEN [data |-> parsed[1].parsed, strategy |-> "page_table"]
       ELSE [data |-> page.text_data, strategy |-> "text"]

\* The probed pages, by page number, that exist, hold the heading and give
\* something, in the order of the probes: page 4, page 5, page 3.
YieldingPages(pages) ==
    SelectSeq(<<4, 5, 3>>,
              LAMBDA p : /\ p <= Len(pages)
                         /\ pages[p].heading
                         /\ DOMAIN OnProbedPage(pages[p]).data # {})

\* C26: when the header-table strategy found nothing, the entries come from
\* the first of the pages 4, 5, 3 that exists, holds the heading and gives
\* something, its tables of more than two rows before its text; when no
\* probed page holds the heading the result is empty and no text is parsed.
C26_ProbeOrderAndFallback ==
    (Extracted /\ ret[1].strategy2_entered) =>
        LET r == ret[1]
            yielding == YieldingPages(arg.pages)
        IN /\ yielding = <<>> =>
                 r.raw = NoData /\ r.data = NoData /\ r.strategy = "none"
           /\ yielding # <<>> =>
                 /\ r.page = yielding[1]
                 /\ r.raw = OnProbedPage(arg.pages[yielding[1]]).data
                 /\ r.strategy = OnProbedPage(arg.pages[yielding[1]]).strategy
           /\ (\A p \in {3, 4, 5} : p <= Len(arg.pages) => ~arg.pages[p].heading) =>
                 r.raw = NoData /\ r.strategy = "none"

\* Page 4 holds the heading and gives nothing, page 5 gives entries from its
\* text, page 3 would give entries from a table: page 5 wins.
C26_Witness ==
    /\ Extracted
    /\ ret[1].strategy2_entered
    /\ Len(arg.pages) = 5
    /\ arg.pages[4].heading
    /\ arg.pages[3].heading
    /\ OnProbedPage(arg.pages[3]).strategy = "page_table"
    /\ ret[1].page = 5
    /\ ret[1].strategy = "text"

\* No probed page holds the heading although a page has text that would parse.
C26_WitnessNoHeading ==
    /\ Extracted
    /\ ret[1].strategy2_entered
    /\ Len(arg.pages) = 5
    /\ \A p \in {3, 4, 5} : ~arg.pages[p].heading
    /\ arg.pages[1].heading
    /\ DOMAIN arg.pages[1].text_data # {}
    /\ ret[1].raw = NoData

\* C25: after _remove_extra_images and _insert_main_image the only paragraph
\* with a drawing is the target paragraph of the insertion, and it holds the
\* product's image and nothing else.
C25_OnlyAnchorCarriesImage ==
    (arg.fn = "_process_document" /\ arg.fault = "none" /\ ret # <<>>) =>
        LET r == ret[1]
        IN /\ \A i \in DOMAIN r.doc : r.doc[i].images # <<>> => i = r.target
           /\ r.target # 0 => r.doc[r.target].images = <<"product">>

====
